---- MODULE Spec2Model ----
(***************************************************************************)
(* Streak / target / penalty engine of lelerun                             *)
(* (src/services/StreakService.ts, later variants of StreakService and     *)
(* TargetService; src/services/ShopService.ts).                             *)
(*                                                                         *)
(* Units.  Distances are integers in hundredths of a kilometre             *)
(* (1.0 km = 100).  Timestamps are integers in hours since local midnight  *)
(* of day 0; calendar dates ('YYYY-MM-DD' strings in the code) are day     *)
(* numbers, so string equality / ordering of dates is integer equality /   *)
(* ordering.  Day 0 is Saturday 2024-12-28.  One user is modelled, so the  *)
(* user_id column of every table is left out.                              *)
(***************************************************************************)
EXTENDS Integers, Sequences, FiniteSets, TLC

(* ---------------------------- bounds ----------------------------------- *)
MaxDay == 2
Lookahead == 2
HistoryDays == 7
MaxWorkouts == 2
MaxPurchases == 2
MaxStreakDay == 250

(* ------------------------ program constants ---------------------------- *)
HoursPerDay == 24
DaysAhead == 90
DefaultPenaltyKm == 200
WeeklyLimit == 2

(* ------------------------- inputs of the model ------------------------- *)
Distances == {0, 100, 237}
TargetKms == {0, 150}
Items == {1}
Costs == {10}
ClockStep == HoursPerDay
HistoryExcessKm == 100

\* SQL NULL in a date or timestamp column: below every date of the model
Null == 0 - 1000000

Min(a, b) == IF a <= b THEN a ELSE b
Max(a, b) == IF a >= b THEN a ELSE b

(* ------------------------------ calendar ------------------------------- *)
Epoch == [year |-> 2024, newYearOffset |-> 4, weekday |-> 6]

IsLeap(y) == (y % 4 = 0 /\ y % 100 # 0) \/ y % 400 = 0
DaysInYear(y) == IF IsLeap(y) THEN 366 ELSE 365

RECURSIVE YearStart(_)
YearStart(y) ==
    IF y = Epoch.year + 1 THEN Epoch.newYearOffset
    ELSE IF y > Epoch.year + 1 THEN YearStart(y - 1) + DaysInYear(y - 1)
    ELSE YearStart(y + 1) - DaysInYear(y)

RECURSIVE YearFrom(_, _)
YearFrom(y, date) ==
    IF date < YearStart(y) THEN YearFrom(y - 1, date)
    ELSE IF date >= YearStart(y + 1) THEN YearFrom(y + 1, date)
    ELSE y

getFullYear(date) == YearFrom(Epoch.year, date)
getDay(date) == (date + Epoch.weekday) % 7

getISOWeek(date) ==
    LET dayNum == IF getDay(date) = 0 THEN 7 ELSE getDay(date)
        d == date + 4 - dayNum
        yearStart == YearStart(getFullYear(d))
    IN  ((d - yearStart + 1) + 6) \div 7

localDateStr(ts) == ts \div HoursPerDay
addDays(date, n) == date + n

(* ---------------------------- target curve ----------------------------- *)
RoundHalfKm_WholeKm(num, den) == 100 * ((2 * num + den) \div (2 * den))

\* Math.round(raw * 2) / 2 for raw = num / den, in hundredths of a km
RoundHalfKm(num, den) == 50 * ((4 * num + den) \div (2 * den))

getTargetKm_Wraps(streakDay) ==
    IF streakDay <= 30 THEN RoundHalfKm(58 + 3 * (streakDay - 1), 58)
    ELSE IF streakDay <= 60 THEN RoundHalfKm(145 + 3 * (streakDay - 30), 58)
    ELSE IF streakDay <= 100 THEN RoundHalfKm(156 + 2 * (streakDay - 60), 39)
    ELSE RoundHalfKm(300 + ((streakDay - 100) % 100), 50)

\* phase 4 starting at the 5.0 km of the comment that heads the function
getTargetKm_PhaseFourFromFive(streakDay) ==
    IF streakDay <= 30 THEN RoundHalfKm(58 + 3 * (streakDay - 1), 58)
    ELSE IF streakDay <= 60 THEN RoundHalfKm(145 + 3 * (streakDay - 30), 58)
    ELSE IF streakDay <= 100 THEN RoundHalfKm(156 + 2 * (streakDay - 60), 39)
    ELSE RoundHalfKm(500 + 3 * Min(streakDay - 100, 100), 100)

getTargetKm(streakDay) ==
    IF streakDay <= 30 THEN RoundHalfKm(58 + 3 * (streakDay - 1), 58)
    ELSE IF streakDay <= 60 THEN RoundHalfKm(145 + 3 * (streakDay - 30), 58)
    ELSE IF streakDay <= 100 THEN RoundHalfKm(156 + 2 * (streakDay - 60), 39)
    ELSE RoundHalfKm(300 + Min(streakDay - 100, 100), 50)

(* ------------------------------- state --------------------------------- *)
VARIABLES
    now,            \* the device clock, hours since midnight of day 0
    streaks,        \* table streaks: the user's rows (none or one)
    daily_targets,  \* table daily_targets: effective_date -> target_km
    purchases,      \* table purchases: sequence of rows, id = index
    profiles,       \* table profiles: the user's rows (none or one)
    last,           \* the last service call: arguments, result, state before
    advancesToday,  \* updateStreakAfterWorkout calls of the current day that raised current_streak
    workouts,       \* number of workouts processed so far
    runLog,         \* run days so far -> whether a workout of that day met its target
    calls           \* checkAndApplyPenalties calls in progress: position and local variables

vars == <<now, streaks, daily_targets, purchases, profiles, last, advancesToday,
          workouts, runLog, calls>>

DB == [streaks |-> streaks, daily_targets |-> daily_targets,
       purchases |-> purchases, profiles |-> profiles]

Today == localDateStr(now)

TheStreak(db) == CHOOSE r \in db.streaks : TRUE
TheProfile(db) == CHOOSE r \in db.profiles : TRUE

(* ------------------------ StreakService.getStreak ----------------------- *)
\* updated_at of a freshly inserted row is left to the table's default; no
\* code path reads it before an update has stamped it, so it is kept Null.
NewStreakRow ==
    [current_streak |-> 0, longest_streak |-> 0, penalty_km |-> 0,
     last_run_date |-> Null, updated_at |-> Null]

getStreak(db) ==
    IF db.streaks = {}
    THEN [db |-> [db EXCEPT !.streaks = {NewStreakRow}], data |-> NewStreakRow]
    ELSE [db |-> db, data |-> TheStreak(db)]

(* ----------------------------- TargetService --------------------------- *)
\* The table is kept for the dates up to LastDate only: no call made on a day
\* <= MaxDay reads or deletes a row by anything but its date relative to that
\* day, so the rows further ahead never influence a run within the horizon.
LastDate == MaxDay + Lookahead

generateFutureTargets_KeepsExisting(db, t, startStreakDay, daysAhead) ==
    LET today == localDateStr(t)
        rows == today .. Min(addDays(today, daysAhead) - 1, LastDate)
    IN  [db EXCEPT !.daily_targets =
            [d \in (DOMAIN db.daily_targets) \cup rows |->
                IF d \in DOMAIN db.daily_targets THEN db.daily_targets[d]
                ELSE getTargetKm(startStreakDay + (d - today))]]

generateFutureTargets(db, t, startStreakDay, daysAhead) ==
    LET today == localDateStr(t)
        rows == today .. Min(addDays(today, daysAhead) - 1, LastDate)
    IN  [db EXCEPT !.daily_targets =
            [d \in (DOMAIN db.daily_targets) \cup rows |->
                IF d \in rows THEN getTargetKm(startStreakDay + (d - today))
                ELSE db.daily_targets[d]]]

deleteFutureTargets_FromToday(db, t) ==
    LET today == localDateStr(t)
    IN  [db EXCEPT !.daily_targets =
            [d \in { e \in DOMAIN db.daily_targets : ~(e >= today) } |->
                db.daily_targets[d]]]

deleteFutureTargets(db, t) ==
    LET tomorrow == addDays(localDateStr(t), 1)
    IN  [db EXCEPT !.daily_targets =
            [d \in { e \in DOMAIN db.daily_targets : ~(e >= tomorrow) } |->
                db.daily_targets[d]]]

ensureTodayTarget_AlwaysGenerates(db, t) ==
    LET currentStreak == IF db.streaks = {} THEN 0
                         ELSE TheStreak(db).current_streak
        startDay == currentStreak + 1
    IN  [db |-> generateFutureTargets(db, t, startDay, DaysAhead),
         ret |-> getTargetKm(startDay)]

ensureTodayTarget_FromDayOne(db, t) ==
    LET today == localDateStr(t)
    IN  IF today \in DOMAIN db.daily_targets
        THEN [db |-> db, ret |-> db.daily_targets[today]]
        ELSE [db |-> generateFutureTargets(db, t, 1, DaysAhead),
              ret |-> getTargetKm(1)]

ensureTodayTarget(db, t) ==
    LET today == localDateStr(t)
    IN  IF today \in DOMAIN db.daily_targets
        THEN [db |-> db, ret |-> db.daily_targets[today]]
        ELSE LET currentStreak == IF db.streaks = {} THEN 0
                                  ELSE TheStreak(db).current_streak
                 startDay == currentStreak + 1
             IN  [db |-> generateFutureTargets(db, t, startDay, DaysAhead),
                  ret |-> getTargetKm(startDay)]

(* ------------------ StreakService.checkAndApplyPenalties ---------------- *)
UpdateStreak(db, row) == [db EXCEPT !.streaks = {row}]

SkipCards_IgnoresExpiry(db, t) ==
    { id \in DOMAIN db.purchases : db.purchases[id].used_at = Null }

\* rows returned by the skip-card query: unused and not yet expired
SkipCards(db, t) ==
    { id \in DOMAIN db.purchases :
        db.purchases[id].used_at = Null /\ db.purchases[id].expires_at >= t }

AlreadyProcessedToday_Never(streak, today) == FALSE

\* updated_at, read as a local date, is today
AlreadyProcessedToday(streak, today) ==
    streak.updated_at # Null /\ localDateStr(streak.updated_at) = today

MissedDays(row, t) == (localDateStr(t) - row.last_run_date) - 1

\* TRUE when the call gets past every early return and reconciles a gap
Reconciles(db, t) ==
    /\ db.streaks # {}
    /\ LET s == TheStreak(db)
       IN  /\ s.last_run_date # Null
           /\ ~AlreadyProcessedToday(s, localDateStr(t))
           /\ s.last_run_date # localDateStr(t)
           /\ ~(localDateStr(t) - s.last_run_date <= 1)

CardsToUse(db, t) ==
    IF SkipCards(db, t) # {}
    THEN Min(Cardinality(SkipCards(db, t)), MissedDays(TheStreak(db), t))
    ELSE 0

\* The query has no ORDER BY: any cardsToUse of the returned rows may come first.
CardChoices(db, t) ==
    IF Reconciles(db, t)
    THEN { u \in SUBSET SkipCards(db, t) : Cardinality(u) = CardsToUse(db, t) }
    ELSE { {} }

LastTargetKm(db, today) ==
    LET known == { d \in DOMAIN db.daily_targets : d <= today }
    IN  IF known = {} THEN DefaultPenaltyKm
        ELSE LET latest == CHOOSE d \in known : \A e \in known : e <= d
             IN  IF db.daily_targets[latest] = 0 THEN DefaultPenaltyKm
                 ELSE db.daily_targets[latest]

SingleMiss_ResetsStreak(db, t, streak, newLastRun) ==
    LET penaltyKm == LastTargetKm(db, localDateStr(t))
        db1 == UpdateStreak(db, [streak EXCEPT
                    !.penalty_km = streak.penalty_km + penaltyKm,
                    !.current_streak = 0,
                    !.last_run_date = newLastRun,
                    !.updated_at = t])
    IN  [db |-> ensureTodayTarget(db1, t).db, ret |-> penaltyKm, branch |-> "single"]

SingleMiss(db, t, streak, newLastRun) ==
    LET penaltyKm == LastTargetKm(db, localDateStr(t))
        db1 == UpdateStreak(db, [streak EXCEPT
                    !.penalty_km = streak.penalty_km + penaltyKm,
                    !.last_run_date = newLastRun,
                    !.updated_at = t])
    IN  [db |-> ensureTodayTarget(db1, t).db, ret |-> penaltyKm, branch |-> "single"]

HardReset_KeepsDebt(db, t, streak, newLastRun) ==
    LET db1 == UpdateStreak(db, [streak EXCEPT
                    !.current_streak = 0,
                    !.last_run_date = newLastRun,
                    !.updated_at = t])
        db2 == deleteFutureTargets(db1, t)
    IN  [db |-> ensureTodayTarget(db2, t).db, ret |-> 0, branch |-> "reset"]

HardReset(db, t, streak, newLastRun) ==
    LET db1 == UpdateStreak(db, [streak EXCEPT
                    !.penalty_km = 0,
                    !.current_streak = 0,
                    !.last_run_date = newLastRun,
                    !.updated_at = t])
        db2 == deleteFutureTargets(db1, t)
    IN  [db |-> ensureTodayTarget(db2, t).db, ret |-> 0, branch |-> "reset"]

FullyCovered_KeepsLastRun(db, t, streak, newLastRun) ==
    LET db1 == UpdateStreak(db, [streak EXCEPT !.updated_at = t])
    IN  [db |-> ensureTodayTarget(db1, t).db, ret |-> 0, branch |-> "covered"]

FullyCovered(db, t, streak, newLastRun) ==
    LET db1 == UpdateStreak(db, [streak EXCEPT
                    !.last_run_date = newLastRun,
                    !.updated_at = t])
    IN  [db |-> ensureTodayTarget(db1, t).db, ret |-> 0, branch |-> "covered"]

ConsumeCards(db, t, used) ==
    [db EXCEPT !.purchases =
        [id \in DOMAIN db.purchases |->
            IF id \in used THEN [db.purchases[id] EXCEPT !.used_at = t]
            ELSE db.purchases[id]]]

\* every early return: ensure today's target, report no penalty
EarlyReturn(db, t, why) ==
    [db |-> ensureTodayTarget(db, t).db, ret |-> 0, branch |-> why]

checkAndApplyPenalties(db, t, used) ==
    LET g == getStreak(db)
        streak == g.data
        today == localDateStr(t)
        lastRun == streak.last_run_date
    IN  IF lastRun = Null
        THEN EarlyReturn(g.db, t, "new")
        ELSE IF AlreadyProcessedToday(streak, today)
        THEN EarlyReturn(g.db, t, "done")
        ELSE IF lastRun = today
        THEN EarlyReturn(g.db, t, "ran")
        ELSE IF today - lastRun <= 1
        THEN EarlyReturn(g.db, t, "intact")
        ELSE
            LET missedDays == (today - lastRun) - 1
                skipCards == SkipCards(g.db, t)
                cardsToUse == IF skipCards # {}
                              THEN Min(Cardinality(skipCards), missedDays) ELSE 0
                db1 == ConsumeCards(g.db, t, used)
                actualMissed == missedDays - cardsToUse
                newLastRun == IF skipCards # {} THEN addDays(lastRun, cardsToUse)
                              ELSE lastRun
            IN  IF actualMissed > 0
                THEN IF actualMissed = 1
                     THEN SingleMiss(db1, t, streak, newLastRun)
                     ELSE HardReset(db1, t, streak, newLastRun)
                ELSE FullyCovered(db1, t, streak, newLastRun)

(* ---------------- StreakService.updateStreakAfterWorkout --------------- *)
PenaltyCleared(distanceKm, penaltyKm) ==
    IF penaltyKm > 0
    THEN IF distanceKm >= penaltyKm THEN penaltyKm ELSE distanceKm
    ELSE 0

TargetMet_AnyWorkout(distanceKm, remaining, targetKm) == distanceKm >= 0

TargetMet_RawDistance(distanceKm, remaining, targetKm) ==
    IF targetKm > 0 THEN distanceKm >= targetKm ELSE distanceKm > 0

TargetMet(distanceKm, remaining, targetKm) ==
    IF targetKm > 0 THEN remaining >= targetKm ELSE distanceKm > 0

RpEarned_Rounds(targetMet, remaining, targetKm) ==
    IF targetMet /\ targetKm > 0
    THEN Max(0, ((remaining - targetKm) + 5) \div 10)
    ELSE 0

\* Math.max(0, Math.floor(excessKm * 10)), excessKm in hundredths of a km
RpEarned(targetMet, remaining, targetKm) ==
    IF targetMet /\ targetKm > 0
    THEN Max(0, (remaining - targetKm) \div 10)
    ELSE 0

AlreadyRanToday_Never(lastRun, today) == FALSE

AlreadyRanToday(lastRun, today) == lastRun = today

AdvancedStreak(currentStreak) ==
    IF currentStreak = 0 THEN 1 ELSE currentStreak + 1

LongestStreak_Stale(longestStreak, currentStreak) == longestStreak

LongestStreak(longestStreak, currentStreak) == Max(longestStreak, currentStreak)

PersistedLastRun_OnlyWhenMet(lastRun, today, targetMet) ==
    IF targetMet THEN today ELSE lastRun

\* last_run_date written by the update that ends every processed workout
PersistedLastRun(lastRun, today, targetMet) == today

AwardRp(db, rpEarned) ==
    IF rpEarned > 0 /\ db.profiles # {}
    THEN [db EXCEPT !.profiles =
            {[TheProfile(db) EXCEPT !.rp_balance = @ + rpEarned]}]
    ELSE db

\* the call once the reconciliation is done: g is what getStreak returns
\* after it, branch the path the reconciliation took
ProcessWorkout(g, branch, t, distanceKm, targetKm) ==
    LET streak == g.data
        today == localDateStr(t)
        lastRun == streak.last_run_date
        penaltyCleared == PenaltyCleared(distanceKm, streak.penalty_km)
        penaltyKm == streak.penalty_km - penaltyCleared
        remaining == distanceKm - penaltyCleared
        targetMet == TargetMet(distanceKm, remaining, targetKm)
        rpEarned == RpEarned(targetMet, remaining, targetKm)
        advance == targetMet /\ ~AlreadyRanToday(lastRun, today)
        currentStreak == IF advance THEN AdvancedStreak(streak.current_streak)
                         ELSE streak.current_streak
        longestStreak == IF advance
                         THEN LongestStreak(streak.longest_streak, currentStreak)
                         ELSE streak.longest_streak
        db1 == IF advance
               THEN generateFutureTargets(g.db, t, currentStreak + 1, DaysAhead)
               ELSE g.db
        db2 == UpdateStreak(db1, [streak EXCEPT
                    !.current_streak = currentStreak,
                    !.longest_streak = longestStreak,
                    !.last_run_date = PersistedLastRun(lastRun, today, targetMet),
                    !.penalty_km = penaltyKm,
                    !.updated_at = t])
    IN  [db |-> AwardRp(db2, rpEarned),
         read |-> streak,
         branch |-> branch,
         ret |-> [streakUpdated |-> targetMet, rpEarned |-> rpEarned,
                  penaltyCleared |-> penaltyCleared, newStreak |-> currentStreak]]

updateStreakAfterWorkout(db, t, distanceKm, targetKm, used) ==
    LET c == checkAndApplyPenalties(db, t, used)
    IN  ProcessWorkout(getStreak(c.db), c.branch, t, distanceKm, targetKm)

(* --------------------- ShopService.purchaseSkipCard --------------------- *)
WeekOfYear(t) ==
    getFullYear(localDateStr(t)) * 100 + getISOWeek(localDateStr(t))

WeekCount(db, itemId, weekOfYear) ==
    Cardinality({ id \in DOMAIN db.purchases :
                    /\ db.purchases[id].item_id = itemId
                    /\ db.purchases[id].week_of_year = weekOfYear })

InsufficientRp_OnlyWhenBroke(db, rpCost) ==
    db.profiles = {} \/ TheProfile(db).rp_balance <= 0

\* !profile || profile.rp_balance < rpCost
InsufficientRp(db, rpCost) ==
    db.profiles = {} \/ TheProfile(db).rp_balance < rpCost

WeeklyLimitReached_Above(count) == count > WeeklyLimit

\* count !== null && count >= 2
WeeklyLimitReached(count) == count >= WeeklyLimit

\* the purchase with the deduction of lines 65-68 left out
purchaseSkipCard_KeepsBalance(db, t, itemId, rpCost) ==
    IF InsufficientRp(db, rpCost)
    THEN [db |-> db, ret |-> "Not enough RP"]
    ELSE IF WeeklyLimitReached(WeekCount(db, itemId, WeekOfYear(t)))
    THEN [db |-> db, ret |-> "Maximum 2 skip cards per week"]
    ELSE LET row == [item_id |-> itemId, expires_at |-> t + HoursPerDay,
                     used_at |-> Null, week_of_year |-> WeekOfYear(t)]
         IN  [db |-> [db EXCEPT !.purchases = Append(db.purchases, row)],
              ret |-> "ok"]

purchaseSkipCard(db, t, itemId, rpCost) ==
    IF InsufficientRp(db, rpCost)
    THEN [db |-> db, ret |-> "Not enough RP"]
    ELSE IF WeeklyLimitReached(WeekCount(db, itemId, WeekOfYear(t)))
    THEN [db |-> db, ret |-> "Maximum 2 skip cards per week"]
    ELSE LET row == [item_id |-> itemId, expires_at |-> t + HoursPerDay,
                     used_at |-> Null, week_of_year |-> WeekOfYear(t)]
             db1 == [db EXCEPT !.purchases = Append(db.purchases, row)]
         IN  [db |-> [db1 EXCEPT !.profiles =
                        {[TheProfile(db) EXCEPT !.rp_balance = @ - rpCost]}],
              ret |-> "ok"]

(* ------------------------------ the machine ----------------------------- *)
\* `last` describes the most recent service call since the clock last moved:
\* its name and arguments, what it found (pre: the database for
\* checkAndApplyPenalties, the targets for deleteFutureTargets, the streaks
\* table otherwise; found: whether ensureTodayTarget met a row for today),
\* the path the reconciliation took (branch) and what it returned (ret).
\* `prior` is the branch of a checkAndApplyPenalties call that immediately
\* preceded it, `repeat` tells a generateFutureTargets call that repeats the
\* arguments of the call before it, `reconciled` is the streaks table as the
\* reconciliation inside a workout call left it.
NoCall == [op |-> "none"]

\* the two checkAndApplyPenalties calls that can be in progress at a time
\* (HomeScreen.loadData runs on every focus and on every pull to refresh)
CallIds == {1, 2}
NoCalls == [p \in CallIds |-> [pc |-> "idle"]]

Install(db) ==
    /\ streaks' = db.streaks
    /\ daily_targets' = db.daily_targets
    /\ purchases' = db.purchases
    /\ profiles' = db.profiles

Install0(db) ==
    /\ streaks = db.streaks
    /\ daily_targets = db.daily_targets
    /\ purchases = db.purchases
    /\ profiles = db.profiles

Balance(db) == IF db.profiles = {} THEN 0 ELSE TheProfile(db).rp_balance
CurrentStreak(db) == IF db.streaks = {} THEN 0 ELSE TheStreak(db).current_streak

\* A user who has just signed up: a profile with no RP, nothing else.
FreshDB == [streaks |-> {}, daily_targets |-> << >>, purchases |-> << >>,
            profiles |-> {[rp_balance |-> 0]}]

\* The database of a user who, before day 0, ran on each of the n days
\* -n .. -1 the way the workout screen does it (getTodayTarget, then
\* updateStreakAfterWorkout), every run HistoryExcessKm above the target.
\* one day of that history: the run at time t of a user with database db
HistoryRun(db, t) ==
    LET e == ensureTodayTarget(db, t)
    IN  updateStreakAfterWorkout(e.db, t, e.ret + HistoryExcessKm, e.ret, {}).db

RECURSIVE History(_, _)
History(k, n) ==
    IF k = 0 THEN FreshDB
    ELSE HistoryRun(History(k - 1, n), (k - n - 1) * HoursPerDay)

Init ==
    /\ now = 0
    /\ \E n \in {0, HistoryDays} :
          /\ Install0(History(n, n))
          /\ runLog = [d \in (0 - n) .. (0 - 1) |-> TRUE]
    /\ last = NoCall
    /\ advancesToday = 0
    /\ workouts = 0
    /\ calls = NoCalls

\* the clock moves on to the same time of the next calendar day
Tick ==
    /\ localDateStr(now + ClockStep) <= MaxDay
    /\ now' = now + ClockStep
    /\ advancesToday' = IF localDateStr(now + ClockStep) = Today
                        THEN advancesToday ELSE 0
    /\ last' = NoCall
    /\ UNCHANGED <<streaks, daily_targets, purchases, profiles, calls, workouts, runLog>>

GetStreak ==
    LET r == getStreak(DB)
    IN  /\ Install(r.db)
        /\ last' = [op |-> "getStreak", pre |-> streaks, ret |-> r.data]
        /\ UNCHANGED <<now, calls, advancesToday, workouts, runLog>>

EnsureTodayTarget ==
    LET r == ensureTodayTarget(DB, now)
    IN  /\ Install(r.db)
        /\ last' = [op |-> "ensureTodayTarget", pre |-> streaks,
                    found |-> Today \in DOMAIN daily_targets, ret |-> r.ret]
        /\ UNCHANGED <<now, calls, advancesToday, workouts, runLog>>

CheckAndApplyPenalties ==
    \E used \in CardChoices(DB, now) :
        LET r == checkAndApplyPenalties(DB, now, used)
        IN  /\ Install(r.db)
            /\ last' = [op |-> "checkAndApplyPenalties", pre |-> DB,
                        branch |-> r.branch,
                        prior |-> IF last.op = "checkAndApplyPenalties"
                                  THEN last.branch ELSE "",
                        ret |-> r.ret]
            /\ UNCHANGED <<now, calls, advancesToday, workouts, runLog>>

UpdateStreakAfterWorkout ==
    \E distanceKm \in Distances, targetKm \in TargetKms,
       used \in CardChoices(DB, now) :
        LET r == updateStreakAfterWorkout(DB, now, distanceKm, targetKm, used)
        IN  /\ workouts < MaxWorkouts
            /\ workouts' = workouts + 1
            /\ Install(r.db)
            /\ last' = [op |-> "updateStreakAfterWorkout", pre |-> streaks,
                        distanceKm |-> distanceKm, targetKm |-> targetKm,
                        read |-> r.read, balance |-> Balance(DB),
                        ret |-> r.ret]
            /\ advancesToday' =
                 IF r.ret.newStreak > CurrentStreak(DB)
                 THEN advancesToday + 1 ELSE advancesToday
            /\ runLog' = [d \in DOMAIN runLog \cup {Today} |->
                             IF d = Today
                             THEN r.ret.streakUpdated
                                  \/ (Today \in DOMAIN runLog /\ runLog[Today])
                             ELSE runLog[d]]
            /\ UNCHANGED <<now, calls>>

PurchaseSkipCard ==
    \E itemId \in Items, rpCost \in Costs :
        LET r == purchaseSkipCard(DB, now, itemId, rpCost)
        IN  /\ Len(r.db.purchases) <= MaxPurchases
            /\ Install(r.db)
            /\ last' = [op |-> "purchaseSkipCard", pre |-> streaks,
                        itemId |-> itemId, rpCost |-> rpCost, ret |-> r.ret]
            /\ UNCHANGED <<now, calls, advancesToday, workouts, runLog>>

Next ==
    \/ Tick
    \/ GetStreak
    \/ EnsureTodayTarget
    \/ CheckAndApplyPenalties
    \/ UpdateStreakAfterWorkout
    \/ PurchaseSkipCard

Spec == Init /\ [][Next]_vars

(* -------------------- TargetService called on its own ------------------- *)
\* generateFutureTargets and deleteFutureTargets are public methods of
\* TargetService; TargetSpec adds direct calls of them to the calls of Spec.
StartStreakDays == {34}
DaysAheads == {1, DaysAhead}
SavedDistances == {237}

GenerateFutureTargets ==
    \E startStreakDay \in StartStreakDays, daysAhead \in DaysAheads :
        /\ Install(generateFutureTargets(DB, now, startStreakDay, daysAhead))
        /\ last' = [op |-> "generateFutureTargets",
                    startStreakDay |-> startStreakDay, daysAhead |-> daysAhead,
                    repeat |-> /\ last.op = "generateFutureTargets"
                               /\ last.startStreakDay = startStreakDay
                               /\ last.daysAhead = daysAhead]
        /\ UNCHANGED <<now, calls, advancesToday, workouts, runLog>>

DeleteFutureTargets ==
    /\ Install(deleteFutureTargets(DB, now))
    /\ last' = [op |-> "deleteFutureTargets", pre |-> daily_targets]
    /\ UNCHANGED <<now, calls, advancesToday, workouts, runLog>>

\* the workout screen saving a run: today's target is fetched and handed to
\* updateStreakAfterWorkout
SaveWorkout ==
    \E distanceKm \in SavedDistances :
        LET e == ensureTodayTarget(DB, now)
        IN  \E used \in CardChoices(e.db, now) :
                LET r == updateStreakAfterWorkout(e.db, now, distanceKm, e.ret, used)
                IN  /\ workouts < MaxWorkouts
                    /\ workouts' = workouts + 1
                    /\ Install(r.db)
                    /\ last' = [op |-> "saveWorkout", distanceKm |-> distanceKm,
                                targetKm |-> e.ret, ret |-> r.ret]
                    /\ advancesToday' =
                         IF r.ret.newStreak > CurrentStreak(DB)
                         THEN advancesToday + 1 ELSE advancesToday
                    /\ runLog' = [d \in DOMAIN runLog \cup {Today} |->
                                     IF d = Today
                                     THEN r.ret.streakUpdated
                                          \/ (Today \in DOMAIN runLog /\ runLog[Today])
                                     ELSE runLog[d]]
                    /\ UNCHANGED <<now, calls>>

TargetNext ==
    \/ Tick
    \/ EnsureTodayTarget
    \/ GenerateFutureTargets
    \/ DeleteFutureTargets
    \/ CheckAndApplyPenalties
    \/ SaveWorkout

TargetSpec == Init /\ [][TargetNext]_vars

(* ------------------------- the target curve alone ----------------------- *)
\* getTargetKm evaluated for the streak days 1 .. MaxStreakDay
CurveInit ==
    /\ now = 0
    /\ Install0(FreshDB)
    /\ last = NoCall
    /\ advancesToday = 0
    /\ workouts = 0
    /\ calls = NoCalls
    /\ runLog = << >>

GetTargetKm ==
    \E streakDay \in 1 .. MaxStreakDay :
        /\ last' = [op |-> "getTargetKm", streakDay |-> streakDay,
                    ret |-> getTargetKm(streakDay)]
        /\ UNCHANGED <<now, calls, streaks, daily_targets, purchases, profiles,
                       advancesToday, workouts, runLog>>

CurveNext == GetTargetKm

CurveSpec == CurveInit /\ [][CurveNext]_vars

(* ----------------------------- the shop alone --------------------------- *)
\* purchases of users with no profile row or with one of a few balances
ShopBalances == {0, 5, 10, 15, 20, 25, 30}

ShopInit ==
    /\ now = 0
    /\ streaks = {}
    /\ daily_targets = << >>
    /\ purchases = << >>
    /\ profiles \in {{}} \cup { {[rp_balance |-> b]} : b \in ShopBalances }
    /\ last = NoCall
    /\ advancesToday = 0
    /\ workouts = 0
    /\ calls = NoCalls
    /\ runLog = << >>

\* a purchase in the shop; the balance bounds the number of purchases
ShopPurchase ==
    \E itemId \in Items, rpCost \in Costs :
        LET r == purchaseSkipCard(DB, now, itemId, rpCost)
        IN  /\ Install(r.db)
            /\ last' = [op |-> "purchaseSkipCard", pre |-> streaks,
                        itemId |-> itemId, rpCost |-> rpCost, ret |-> r.ret]
            /\ UNCHANGED <<now, calls, advancesToday, workouts, runLog>>

ShopNext ==
    \/ Tick
    \/ ShopPurchase

ShopSpec == ShopInit /\ [][ShopNext]_vars

(* ----------------------- the shop over new year ------------------------- *)
\* purchases on the days 0 .. MaxYearEndDay, Saturday 28 December 2024 to
\* Friday 3 January 2025
MaxYearEndDay == 6

YearEndTick ==
    /\ localDateStr(now + ClockStep) <= MaxYearEndDay
    /\ now' = now + ClockStep
    /\ last' = NoCall
    /\ UNCHANGED <<streaks, daily_targets, purchases, profiles, calls,
                   advancesToday, workouts, runLog>>

YearEndNext ==
    \/ YearEndTick
    \/ ShopPurchase

YearEndSpec == ShopInit /\ [][YearEndNext]_vars

(* ------------------ a workout whose streak write fails ------------------ *)
\* The update of lines 292-301 can fail (the storage is unavailable).
\* supabase-js hands the failure back in the result of the awaited call,
\* which updateStreakAfterWorkout does not look at: the streaks table keeps
\* what the reconciliation left and the call goes on to the RP award.
LostStreakWrite(db, t, distanceKm, targetKm, used) ==
    LET c == checkAndApplyPenalties(db, t, used)
        g == getStreak(c.db)
        r == ProcessWorkout(g, c.branch, t, distanceKm, targetKm)
    IN  [db |-> [r.db EXCEPT !.streaks = g.db.streaks],
         reconciled |-> g.db.streaks,
         ret |-> r.ret]

StreakWriteFails ==
    \E distanceKm \in Distances, targetKm \in TargetKms,
       used \in CardChoices(DB, now) :
        LET r == LostStreakWrite(DB, now, distanceKm, targetKm, used)
        IN  /\ workouts < MaxWorkouts
            /\ workouts' = workouts + 1
            /\ Install(r.db)
            /\ last' = [op |-> "streakWriteFails", pre |-> streaks,
                        distanceKm |-> distanceKm, targetKm |-> targetKm,
                        reconciled |-> r.reconciled, balance |-> Balance(DB),
                        ret |-> r.ret]
            /\ UNCHANGED <<now, calls, advancesToday, runLog>>

FailNext ==
    \/ Tick
    \/ UpdateStreakAfterWorkout
    \/ StreakWriteFails

FailSpec == Init /\ [][FailNext]_vars

(* --------------------- workouts of short streaks ------------------------ *)
\* The users of Spec have a streak of 0 or HistoryDays days, where the
\* targets of consecutive streak days are equal. AdvanceSpec starts from
\* every history of 0 .. MaxShortHistory days, which puts the first step of
\* the curve (1.0 km at streak day 5, 1.5 km at streak day 6) within reach.
MaxShortHistory == 4

AdvanceInit ==
    /\ now = 0
    /\ \E n \in 0 .. MaxShortHistory :
          /\ Install0(History(n, n))
          /\ runLog = [d \in (0 - n) .. (0 - 1) |-> TRUE]
    /\ last = NoCall
    /\ advancesToday = 0
    /\ workouts = 0
    /\ calls = NoCalls

AdvanceNext ==
    \/ Tick
    \/ EnsureTodayTarget
    \/ CheckAndApplyPenalties
    \/ SaveWorkout

AdvanceSpec == AdvanceInit /\ [][AdvanceNext]_vars

(* ------------- checkAndApplyPenalties calls that interleave ------------- *)
\* checkAndApplyPenalties is an async function: a second call can start
\* while the first waits for a query, and the two then take turns at their
\* awaits. Each action below is the stretch of one call from one await to
\* the next; the updates of the cards of one call and the queries inside
\* ensureTodayTarget are taken as one stretch each. A call keeps what it
\* read in its local variables (streak, used, missed, newLastRun, targetKm).
\* pre is the database the call found, first and overlap tell whether the
\* other call was idle or in progress when it started.
Other(p) == 3 - p
InProgress(c) == c.pc \notin {"idle", "done"}
Quiet == \A p \in CallIds : ~InProgress(calls[p])

\* lines 327-364: getStreak and the early returns
ReadStreak ==
    \E p \in CallIds :
        LET g == getStreak(DB)
            streak == g.data
            lastRun == streak.last_run_date
            early == \/ lastRun = Null
                     \/ AlreadyProcessedToday(streak, Today)
                     \/ lastRun = Today
                     \/ Today - lastRun <= 1
        IN  /\ calls[p].pc = "idle"
            /\ Install(g.db)
            /\ calls' = [calls EXCEPT ![p] =
                    [pc |-> IF early THEN "ensure" ELSE "cards",
                     pre |-> DB,
                     first |-> calls[Other(p)].pc = "idle",
                     overlap |-> InProgress(calls[Other(p)]),
                     streak |-> streak, used |-> {}, missed |-> 0,
                     newLastRun |-> lastRun, targetKm |-> 0, ret |-> 0]]
            /\ last' = NoCall
            /\ UNCHANGED <<now, advancesToday, workouts, runLog>>

\* lines 366-377: the missed days and the skip-card query
ReadCards ==
    \E p \in CallIds :
        LET c == calls[p]
            missedDays == MissedDays(c.streak, now)
            skipCards == SkipCards(DB, now)
            cardsToUse == IF skipCards # {}
                          THEN Min(Cardinality(skipCards), missedDays) ELSE 0
        IN  /\ c.pc = "cards"
            /\ \E used \in { u \in SUBSET skipCards : Cardinality(u) = cardsToUse } :
                  calls' = [calls EXCEPT ![p] =
                      [c EXCEPT !.pc = IF cardsToUse > 0 THEN "use" ELSE "target",
                                !.used = used,
                                !.missed = missedDays - cardsToUse,
                                !.newLastRun = addDays(c.streak.last_run_date,
                                                       cardsToUse)]]
            /\ UNCHANGED <<now, streaks, daily_targets, purchases, profiles,
                           last, advancesToday, workouts, runLog>>

\* lines 381-394: used_at of the chosen cards
UseCards ==
    \E p \in CallIds :
        LET c == calls[p]
        IN  /\ c.pc = "use"
            /\ Install(ConsumeCards(DB, now, c.used))
            /\ calls' = [calls EXCEPT ![p] =
                    [c EXCEPT !.pc = IF c.missed > 0 THEN "target" ELSE "write"]]
            /\ UNCHANGED <<now, last, advancesToday, workouts, runLog>>

\* lines 396-406: the latest target dated on or before today
ReadLastTarget ==
    \E p \in CallIds :
        LET c == calls[p]
        IN  /\ c.pc = "target"
            /\ calls' = [calls EXCEPT ![p] =
                    [c EXCEPT !.pc = "write",
                              !.targetKm = LastTargetKm(DB, Today)]]
            /\ UNCHANGED <<now, streaks, daily_targets, purchases, profiles,
                           last, advancesToday, workouts, runLog>>

\* lines 408-419, 423-431 and 444-450: the update of the streaks row, which
\* sets the columns it names and leaves the others as the table has them
WriteStreak ==
    \E p \in CallIds :
        LET c == calls[p]
            row == TheStreak(DB)
        IN  /\ c.pc = "write"
            /\ streaks' =
                 IF c.missed = 1
                 THEN {[row EXCEPT !.penalty_km = c.streak.penalty_km + c.targetKm,
                                   !.last_run_date = c.newLastRun,
                                   !.updated_at = now]}
                 ELSE IF c.missed > 1
                 THEN {[row EXCEPT !.penalty_km = 0,
                                   !.current_streak = 0,
                                   !.last_run_date = c.newLastRun,
                                   !.updated_at = now]}
                 ELSE {[row EXCEPT !.last_run_date = c.newLastRun,
                                   !.updated_at = now]}
            /\ calls' = [calls EXCEPT ![p] =
                    [c EXCEPT !.pc = IF c.missed > 1 THEN "delete" ELSE "ensure",
                              !.ret = IF c.missed = 1 THEN c.targetKm ELSE 0]]
            /\ UNCHANGED <<now, daily_targets, purchases, profiles,
                           last, advancesToday, workouts, runLog>>

\* line 434: deleteFutureTargets after a reset
DeleteTargets ==
    \E p \in CallIds :
        LET c == calls[p]
        IN  /\ c.pc = "delete"
            /\ Install(deleteFutureTargets(DB, now))
            /\ calls' = [calls EXCEPT ![p] = [c EXCEPT !.pc = "ensure"]]
            /\ UNCHANGED <<now, last, advancesToday, workouts, runLog>>

\* ensureTodayTarget and the return that ends every path
EnsureAndReturn ==
    \E p \in CallIds :
        LET c == calls[p]
        IN  /\ c.pc = "ensure"
            /\ Install(ensureTodayTarget(DB, now).db)
            /\ calls' = [calls EXCEPT ![p] = [c EXCEPT !.pc = "done"]]
            /\ UNCHANGED <<now, last, advancesToday, workouts, runLog>>

\* a day passes between calls; the calls of the new day are yet to start
RaceTick ==
    /\ Quiet
    /\ localDateStr(now + ClockStep) <= MaxDay
    /\ now' = now + ClockStep
    /\ calls' = NoCalls
    /\ last' = NoCall
    /\ UNCHANGED <<streaks, daily_targets, purchases, profiles,
                   advancesToday, workouts, runLog>>

\* a skip card bought while no call is in progress
RacePurchase ==
    /\ Quiet
    /\ PurchaseSkipCard

RaceNext ==
    \/ RaceTick
    \/ RacePurchase
    \/ ReadStreak
    \/ ReadCards
    \/ UseCards
    \/ ReadLastTarget
    \/ WriteStreak
    \/ DeleteTargets
    \/ EnsureAndReturn

RaceSpec == Init /\ [][RaceNext]_vars

(* ============================== claims ================================== *)
Called(op) == last.op = op
Row == TheStreak(DB)
OldRow == TheStreak(last.pre)

\* missed days left uncovered once the available skip cards are spent
RemainingMissed(db, t) == MissedDays(TheStreak(db), t) - CardsToUse(db, t)

\* a checkAndApplyPenalties call has just reconciled a gap of missed days
Reconciled == Called("checkAndApplyPenalties") /\ Reconciles(last.pre, now)

\* C1: the persisted streak record always has
\* longest_streak >= current_streak >= 0.
C1_LongestAtLeastCurrent ==
    \A r \in streaks : r.longest_streak >= r.current_streak /\ r.current_streak >= 0

\* a workout has just advanced the streak to a new longest value
C1_Witness ==
    /\ Called("updateStreakAfterWorkout")
    /\ last.pre # {}
    /\ Row.current_streak > TheStreak([streaks |-> last.pre]).longest_streak
    /\ Row.longest_streak = Row.current_streak

\* C2: a reconciliation that leaves exactly one missed day uncovered keeps
\* current_streak, adds to penalty_km the target_km of the most recent
\* target dated on or before today (2.0 km if there is none) and returns
\* that amount.
C2_SingleMissAddsOneTarget ==
    (Reconciled /\ RemainingMissed(last.pre, now) = 1) =>
        LET known == { d \in DOMAIN last.pre.daily_targets : d <= Today }
            latest == CHOOSE d \in known : \A e \in known : e <= d
            added == IF known = {} THEN 200 ELSE last.pre.daily_targets[latest]
        IN  /\ Row.current_streak = OldRow.current_streak
            /\ Row.penalty_km = OldRow.penalty_km + added
            /\ last.ret = added

\* one uncovered miss of a running streak has just been charged
C2_Witness ==
    /\ Reconciled
    /\ RemainingMissed(last.pre, now) = 1
    /\ OldRow.current_streak > 0
    /\ last.ret = 150

\* C3: a reconciliation that leaves two or more missed days uncovered
\* persists current_streak = 0 and penalty_km = 0 whatever the earlier
\* penalty, leaves longest_streak alone and returns 0.
C3_HardResetWipesDebt ==
    (Reconciled /\ RemainingMissed(last.pre, now) >= 2) =>
        /\ Row.current_streak = 0
        /\ Row.penalty_km = 0
        /\ Row.longest_streak = OldRow.longest_streak
        /\ last.ret = 0

\* a streak carrying debt has just been reset
C3_Witness ==
    /\ Reconciled
    /\ RemainingMissed(last.pre, now) >= 2
    /\ OldRow.penalty_km > 0
    /\ OldRow.current_streak > 0

\* C4: after a hard reset no target row dated tomorrow or later is left
\* over from before the reset, and today's stored target is the day-1
\* value of a fresh streak (1.0 km), also when today already had a row.
C4_ResetRegeneratesDayOne ==
    (Reconciled /\ RemainingMissed(last.pre, now) >= 2) =>
        /\ Today \in DOMAIN daily_targets
        /\ daily_targets[Today] = getTargetKm(1)
        /\ \A d \in DOMAIN daily_targets :
              d > Today => /\ d \notin DOMAIN last.pre.daily_targets
                           /\ daily_targets[d] = getTargetKm(1 + (d - Today))

\* skip cards whose used_at went from null to a timestamp in the last
\* checkAndApplyPenalties call
Consumed ==
    { id \in DOMAIN last.pre.purchases :
        last.pre.purchases[id].used_at = Null /\ purchases[id].used_at # Null }

\* C5: when the skip cards cover every missed day the reconciliation
\* leaves current_streak, longest_streak and penalty_km alone, moves
\* last_run_date forward by the number of cards consumed, stamps updated_at
\* and returns 0.
C5_FullyCoveredPreservesStreak ==
    (Reconciled /\ RemainingMissed(last.pre, now) = 0) =>
        /\ Row.current_streak = OldRow.current_streak
        /\ Row.longest_streak = OldRow.longest_streak
        /\ Row.penalty_km = OldRow.penalty_km
        /\ Row.last_run_date = OldRow.last_run_date + Cardinality(Consumed)
        /\ Row.updated_at = now
        /\ last.ret = 0

\* two missed days have just been covered by two cards
C5_Witness ==
    /\ Reconciled
    /\ RemainingMissed(last.pre, now) = 0
    /\ Cardinality(Consumed) = 2
    /\ OldRow.current_streak > 0

\* purchase rows that are unused and unexpired at time t
Available(rows, t) ==
    { id \in DOMAIN rows : rows[id].used_at = Null /\ rows[id].expires_at >= t }

\* C6: a reconciliation of missedDays >= 1 consumes exactly
\* min(available cards, missedDays) cards, each of them unused and
\* unexpired at that moment, no other call consumes a card, and a used_at
\* once set is never changed or cleared.
C6_CardsConsumedOnce ==
    [][LET consumed == { id \in DOMAIN purchases :
                           purchases[id].used_at = Null
                           /\ purchases'[id].used_at # Null }
       IN  /\ \A id \in DOMAIN purchases :
                 purchases[id].used_at # Null
                    => purchases'[id].used_at = purchases[id].used_at
           /\ \A id \in consumed : purchases[id].expires_at >= now
           /\ IF last'.op \in {"checkAndApplyPenalties", "updateStreakAfterWorkout"}
                 /\ Reconciles(DB, now)
              THEN Cardinality(consumed) =
                     Min(Cardinality(Available(purchases, now)),
                         MissedDays(Row, now))
              ELSE consumed = {}]_vars

\* one missed day, two cards available, one of them consumed
C6_Witness ==
    /\ Reconciled
    /\ MissedDays(OldRow, now) = 1
    /\ Cardinality(Available(last.pre.purchases, now)) = 2
    /\ Cardinality(Consumed) = 1

\* C7: checkAndApplyPenalties is idempotent within a calendar day: a call
\* that directly follows another one on the same day returns 0, consumes no
\* skip card, deletes no target row and leaves current_streak,
\* longest_streak, penalty_km and last_run_date as they were.
C7_ReconcileIdempotentWithinDay ==
    [][(last.op = "checkAndApplyPenalties"
        /\ last'.op = "checkAndApplyPenalties") =>
            /\ last'.ret = 0
            /\ purchases' = purchases
            /\ \A d \in DOMAIN daily_targets :
                  d \in DOMAIN daily_targets' /\ daily_targets'[d] = daily_targets[d]
            /\ \A new \in streaks' : \A old \in streaks :
                  /\ new.current_streak = old.current_streak
                  /\ new.longest_streak = old.longest_streak
                  /\ new.penalty_km = old.penalty_km
                  /\ new.last_run_date = old.last_run_date]_vars

\* a second call right after one that charged a single-miss penalty
C7_Witness ==
    /\ Called("checkAndApplyPenalties")
    /\ last.prior = "single"
    /\ Row.penalty_km > 0

\* the streak row a workout call found (all zero when there was none)
FoundRow == IF last.pre = {} THEN NewStreakRow ELSE TheStreak([streaks |-> last.pre])

\* C8: the updateStreakAfterWorkout calls of one calendar day raise
\* current_streak at most once, by one; a workout on a day that already has
\* a run leaves current_streak as it was even if it meets the target alone.
C8_OneAdvancePerDay ==
    /\ advancesToday <= 1
    /\ Called("updateStreakAfterWorkout") =>
          /\ Row.current_streak <= FoundRow.current_streak + 1
          /\ FoundRow.last_run_date = Today
                => Row.current_streak = FoundRow.current_streak

\* the second workout of the day meets its target after the first one
\* advanced the streak
C8_Witness ==
    /\ Called("updateStreakAfterWorkout")
    /\ advancesToday = 1
    /\ FoundRow.last_run_date = Today
    /\ last.ret.streakUpdated
    /\ last.targetKm > 0
    /\ Row.current_streak = FoundRow.current_streak

\* C9 as stated: penaltyCleared = min(distanceKm, penalty_km at entry), the
\* persisted penalty_km is the entry penalty minus penaltyCleared, and for
\* targetKm > 0 the target is met iff distanceKm - penaltyCleared >= targetKm.
C9_ClearsEntryPenalty ==
    Called("updateStreakAfterWorkout") =>
        /\ last.ret.penaltyCleared = Min(last.distanceKm, FoundRow.penalty_km)
        /\ Row.penalty_km = FoundRow.penalty_km - last.ret.penaltyCleared
        /\ Row.penalty_km >= 0
        /\ last.targetKm > 0 =>
              (last.ret.streakUpdated <=>
                 last.distanceKm - last.ret.penaltyCleared >= last.targetKm)

\* C9 amended: the penalty that is cleared is the one read after the
\* reconciliation that the call runs first: penaltyCleared =
\* min(distanceKm, that penalty), the persisted penalty_km is that penalty
\* minus penaltyCleared (never negative), and for targetKm > 0 the target is
\* met iff distanceKm - penaltyCleared >= targetKm.
C9_ClearsReconciledPenalty ==
    Called("updateStreakAfterWorkout") =>
        /\ last.ret.penaltyCleared = Min(last.distanceKm, last.read.penalty_km)
        /\ Row.penalty_km = last.read.penalty_km - last.ret.penaltyCleared
        /\ Row.penalty_km >= 0
        /\ last.targetKm > 0 =>
              (last.ret.streakUpdated <=>
                 last.distanceKm - last.ret.penaltyCleared >= last.targetKm)

\* a run longer than the target fails it because the penalty charged by the
\* reconciliation of the same call is cleared first
C9_Witness ==
    /\ Called("updateStreakAfterWorkout")
    /\ last.ret.penaltyCleared > 0
    /\ last.targetKm > 0
    /\ last.distanceKm > last.targetKm
    /\ ~last.ret.streakUpdated
    /\ last.read.penalty_km > FoundRow.penalty_km

\* C10: rpEarned = floor((distanceKm - penaltyCleared - targetKm) * 10) when
\* the target is met and targetKm > 0, and 0 otherwise; rp_balance grows by
\* exactly rpEarned.
C10_RpIsFlooredExcess ==
    Called("updateStreakAfterWorkout") =>
        /\ last.ret.rpEarned =
              IF last.ret.streakUpdated /\ last.targetKm > 0
              THEN (last.distanceKm - last.ret.penaltyCleared - last.targetKm) \div 10
              ELSE 0
        /\ Balance(DB) = last.balance + last.ret.rpEarned

\* an excess of 0.87 km has just earned 8 RP
C10_Witness ==
    /\ Called("updateStreakAfterWorkout")
    /\ last.distanceKm - last.ret.penaltyCleared - last.targetKm = 87
    /\ last.ret.rpEarned = 8
    /\ Balance(DB) = last.balance + 8

\* C11 as stated: a workout of 0 km against a positive target is reported
\* as not met, earns 0 RP and leaves current_streak, longest_streak,
\* penalty_km and rp_balance as they were when the call was made.
C11_ZeroRunChangesNothing ==
    (Called("updateStreakAfterWorkout") /\ last.distanceKm = 0 /\ last.targetKm > 0) =>
        /\ ~last.ret.streakUpdated
        /\ last.ret.rpEarned = 0
        /\ Row.current_streak = FoundRow.current_streak
        /\ Row.longest_streak = FoundRow.longest_streak
        /\ Row.penalty_km = FoundRow.penalty_km
        /\ Balance(DB) = last.balance

\* C11 amended: a workout of 0 km against a positive target is reported as
\* not met, earns 0 RP, leaves rp_balance and longest_streak as they were,
\* and leaves current_streak and penalty_km as the reconciliation that the
\* call runs first left them.
C11_ZeroRunKeepsReconciledRecord ==
    (Called("updateStreakAfterWorkout") /\ last.distanceKm = 0 /\ last.targetKm > 0) =>
        /\ ~last.ret.streakUpdated
        /\ last.ret.rpEarned = 0
        /\ last.ret.penaltyCleared = 0
        /\ Row.current_streak = last.read.current_streak
        /\ Row.longest_streak = FoundRow.longest_streak
        /\ Row.penalty_km = last.read.penalty_km
        /\ Balance(DB) = last.balance

\* a 0 km workout on the day after a run, with the streak running and a
\* positive target
C11_Witness ==
    /\ Called("updateStreakAfterWorkout")
    /\ last.distanceKm = 0
    /\ last.targetKm > 0
    /\ FoundRow.current_streak > 0
    /\ FoundRow.last_run_date = Today - 1
    /\ Row.current_streak = FoundRow.current_streak
    /\ ~last.ret.streakUpdated

\* C12: every processed workout persists last_run_date = today, whether
\* or not the target was met and whether or not the streak advanced.
C12_LastRunDateIsToday ==
    Called("updateStreakAfterWorkout") =>
        /\ streaks # {}
        /\ Row.last_run_date = Today
        /\ Row.updated_at = now

\* a workout that missed its target on a day without an earlier run
C12_Witness ==
    /\ Called("updateStreakAfterWorkout")
    /\ ~last.ret.streakUpdated
    /\ last.pre # {}
    /\ FoundRow.last_run_date # Today
    /\ Row.current_streak = FoundRow.current_streak
    /\ Row.last_run_date = Today

\* no skip card has been consumed so far
NoCardUsed == \A id \in DOMAIN purchases : purchases[id].used_at = Null

\* the n most recent days on which a workout was processed
RecentRunDays(n) ==
    { d \in DOMAIN runLog : Cardinality({ e \in DOMAIN runLog : e >= d }) <= n }

\* C13: current_streak counts days on which a workout met the target: when
\* no skip card was ever consumed and a workout has just met its target
\* with current_streak = n >= 1, each of the n most recent run days is a
\* day on which some workout met its target, so a day with a run but no
\* met target is not bridged by the count.
C13_StreakCountsMetDays ==
    (/\ Called("updateStreakAfterWorkout")
     /\ last.ret.streakUpdated
     /\ NoCardUsed
     /\ Row.current_streak >= 1) =>
        \A d \in RecentRunDays(Row.current_streak) : runLog[d]

\* C14: when today's target row exists, ensureTodayTarget returns its
\* stored target_km and writes nothing; and no call other than a workout
\* changes or removes today's row, so two calls on one day without a
\* workout in between return the same value.
C14_ExistingTargetIsReturned ==
    [][/\ (last'.op = "ensureTodayTarget" /\ Today \in DOMAIN daily_targets) =>
             /\ last'.ret = daily_targets[Today]
             /\ UNCHANGED <<streaks, daily_targets, purchases, profiles>>
       /\ (/\ Today' = Today
           /\ last'.op # "updateStreakAfterWorkout"
           /\ Today \in DOMAIN daily_targets) =>
             /\ Today \in DOMAIN daily_targets'
             /\ daily_targets'[Today] = daily_targets[Today]]_vars

\* the call has returned a stored value that a regeneration from the
\* streak record would not have produced
C14_Witness ==
    /\ Called("ensureTodayTarget")
    /\ last.found
    /\ last.ret = daily_targets[Today]
    /\ last.ret # getTargetKm(CurrentStreak(DB) + 1)

C16_GenerateIsIdempotent ==
    [][last'.op = "generateFutureTargets" =>
          /\ \A i \in 0 .. (last'.daysAhead - 1) :
                addDays(Today, i) <= LastDate =>
                    /\ addDays(Today, i) \in DOMAIN daily_targets'
                    /\ daily_targets'[addDays(Today, i)]
                          = getTargetKm(last'.startStreakDay + i)
          /\ last'.repeat => daily_targets' = daily_targets]_vars

\* a second call with the arguments of the call before it
C16_Witness ==
    /\ Called("generateFutureTargets")
    /\ last.repeat
    /\ last.daysAhead = DaysAhead
    /\ daily_targets[Today + 1] = getTargetKm(last.startStreakDay + 1)
    /\ daily_targets[Today + 1] # daily_targets[Today]

\* C17: no call creates, changes or deletes a target row dated before
\* today, and deleteFutureTargets removes exactly the rows dated tomorrow
\* or later, leaving today's row and every earlier row as they were.
C17_PastTargetsAreKept ==
    [][/\ \A d \in DOMAIN daily_targets \cup DOMAIN daily_targets' :
             d < Today => /\ d \in DOMAIN daily_targets
                          /\ d \in DOMAIN daily_targets'
                          /\ daily_targets'[d] = daily_targets[d]
       /\ last'.op = "deleteFutureTargets" =>
             /\ DOMAIN daily_targets' = { d \in DOMAIN daily_targets : d <= Today }
             /\ \A d \in DOMAIN daily_targets' :
                   daily_targets'[d] = daily_targets[d]]_vars

\* a deletion that found rows before, on and after today
C17_Witness ==
    /\ Called("deleteFutureTargets")
    /\ \E d \in DOMAIN last.pre : d > Today
    /\ \E d \in DOMAIN daily_targets : d < Today
    /\ Today \in DOMAIN daily_targets
    /\ \A d \in DOMAIN daily_targets : d <= Today

\* the phase of the target curve a streak day falls in
Phase(streakDay) ==
    IF streakDay <= 30 THEN 1
    ELSE IF streakDay <= 60 THEN 2
    ELSE IF streakDay <= 100 THEN 3
    ELSE 4

\* C18: for every day >= 1 the target is a multiple of 0.5 km; it is
\* exactly 1.0 km at day 1, 2.5 km at day 30, 2.5 km at day 31 and 8.0 km
\* for every day >= 200.
C18_TargetHalfKmGrid ==
    Called("getTargetKm") =>
        /\ last.ret % 50 = 0
        /\ last.streakDay = 1 => last.ret = 100
        /\ last.streakDay = 30 => last.ret = 250
        /\ last.streakDay = 31 => last.ret = 250
        /\ last.streakDay >= 200 => last.ret = 800

\* the first day of phase 2 evaluates to 2.5 km
C18_Witness ==
    /\ Called("getTargetKm")
    /\ last.streakDay = 31
    /\ last.ret = 250

\* C19: within each of the four phases (days 1-30, 31-60, 61-100, 101 and
\* beyond) the target is non-decreasing in the streak day.
C19_TargetMonotoneInPhase ==
    Called("getTargetKm") =>
        \A d1 \in 1 .. last.streakDay :
            Phase(d1) = Phase(last.streakDay) => getTargetKm(d1) <= last.ret

\* the last day of phase 3, above the first day of that phase
C19_Witness ==
    /\ Called("getTargetKm")
    /\ last.streakDay = 100
    /\ Phase(61) = Phase(last.streakDay)
    /\ getTargetKm(61) < last.ret

\* C20: a purchase by a user without a profile or with a balance below the
\* cost returns 'Not enough RP' and changes no table.
C20_NotEnoughRpChangesNothing ==
    [][(/\ last'.op = "purchaseSkipCard"
        /\ (profiles = {} \/ Balance(DB) < last'.rpCost)) =>
            /\ last'.ret = "Not enough RP"
            /\ UNCHANGED <<streaks, daily_targets, purchases, profiles>>]_vars

\* a purchase refused with a positive balance below the cost
C20_Witness ==
    /\ Called("purchaseSkipCard")
    /\ last.ret = "Not enough RP"
    /\ profiles # {}
    /\ Balance(DB) > 0
    /\ Balance(DB) < last.rpCost

\* a purchase refused for want of a profile row
C20_NoProfile ==
    /\ Called("purchaseSkipCard")
    /\ last.ret = "Not enough RP"
    /\ profiles = {}

C23_NoCreditWithoutStreakWrite ==
    Called("streakWriteFails") =>
        /\ streaks = last.reconciled
        /\ Balance(DB) = last.balance

\* the bonus of a workout has been credited while its streak write was lost
C23_CreditedWithoutStreakWrite ==
    /\ Called("streakWriteFails")
    /\ streaks = last.reconciled
    /\ last.ret.rpEarned > 0
    /\ Balance(DB) = last.balance + last.ret.rpEarned
    /\ Row.last_run_date # Today
    /\ last.ret.newStreak = Row.current_streak + 1

\* the step is a saved workout that advances the streak: it meets its
\* target on a day without an earlier processed workout
Advances ==
    /\ last'.op = "saveWorkout"
    /\ last'.ret.streakUpdated
    /\ (streaks = {} \/ Row.last_run_date # Today)

\* C24: after a workout that advances the streak to current_streak = s the
\* stored target of tomorrow is the target of streak day s + 1, and the
\* stored target of the k-th following day is the target of streak day
\* s + k.
C24_TomorrowIsNextStreakDay ==
    [][Advances =>
          \A k \in 1 .. Lookahead :
              /\ addDays(Today, k) \in DOMAIN daily_targets'
              /\ daily_targets'[addDays(Today, k)]
                    = getTargetKm(last'.ret.newStreak + k)]_vars

\* what the stored rows hold after an advancing workout: the row of today
\* the target of streak day s + 1, the row of the k-th following day the
\* target of streak day s + 1 + k
C24_RowsStartAtToday ==
    [][Advances =>
          \A k \in 0 .. Lookahead :
              /\ addDays(Today, k) \in DOMAIN daily_targets'
              /\ daily_targets'[addDays(Today, k)]
                    = getTargetKm(last'.ret.newStreak + 1 + k)]_vars

\* C25: once a target row for today exists, no call made during the rest
\* of that calendar day changes its target_km.
C25_TodayTargetIsFixed ==
    [][(localDateStr(now') = Today /\ Today \in DOMAIN daily_targets) =>
          /\ Today \in DOMAIN daily_targets'
          /\ daily_targets'[Today] = daily_targets[Today]]_vars

\* a workout has replaced the target it was measured against by the
\* target of another streak day
C25_TodayTargetRewritten ==
    /\ Called("updateStreakAfterWorkout")
    /\ last.ret.streakUpdated
    /\ last.targetKm > 0
    /\ daily_targets[Today] = getTargetKm(last.ret.newStreak + 1)
    /\ daily_targets[Today] # last.targetKm

\* C26: a second updateStreakAfterWorkout call for the same workout (same
\* distance and target, same day) leaves the outcome of the first: it
\* neither advances current_streak again nor adds the bonus RP again.
C26_RetryChangesNothing ==
    [][(/\ last.op = "updateStreakAfterWorkout"
        /\ last'.op = "updateStreakAfterWorkout"
        /\ last'.distanceKm = last.distanceKm
        /\ last'.targetKm = last.targetKm) =>
            /\ CurrentStreak([streaks |-> streaks']) = CurrentStreak(DB)
            /\ Balance([profiles |-> profiles']) = Balance(DB)]_vars

\* the retry of a workout has credited its bonus a second time
C26_BonusCreditedTwice ==
    /\ Called("updateStreakAfterWorkout")
    /\ last.read.last_run_date = Today
    /\ last.ret.newStreak = last.read.current_streak
    /\ last.ret.rpEarned > 0
    /\ last.balance >= last.ret.rpEarned
    /\ Balance(DB) = last.balance + last.ret.rpEarned

\* the phase table of the specification: first day, last day, start value
\* and end value (hundredths of a km) of each phase
PhaseTable ==
    << [first |-> 1, final |-> 30, from |-> 100, to |-> 250],
       [first |-> 31, final |-> 60, from |-> 250, to |-> 400],
       [first |-> 61, final |-> 100, from |-> 400, to |-> 600],
       [first |-> 101, final |-> 200, from |-> 600, to |-> 800] >>

\* the value the table prescribes: interpolation by (day - phaseStart) /
\* (phaseLength - 1) between the values of the phase, rounded to the
\* nearest 0.5 km, days above 200 taking the value of day 200
TableTargetKm(day) ==
    LET d == Min(day, 200)
        p == PhaseTable[Phase(d)]
        span == p.final - p.first
    IN  RoundHalfKm(p.from * span + (d - p.first) * (p.to - p.from), 100 * span)

\* C27: for every day >= 1, getTargetKm(day) is the value the phase table
\* prescribes (phases 1-30, 31-60, 61-100, 101-200, interpolated from the
\* first to the last day of the phase, rounded to the nearest 0.5 km, days
\* above 200 as day 200).
C27_TargetFollowsPhaseTable ==
    Called("getTargetKm") => last.ret = TableTargetKm(last.streakDay)

\* a day of phase 2 evaluates to half a km above the value of the table
C27_AboveTable ==
    /\ Called("getTargetKm")
    /\ last.streakDay = 35
    /\ last.ret = 300
    /\ TableTargetKm(last.streakDay) = 250

IsoWeekStart(date) == date - ((getDay(date) + 6) % 7)

\* the day a purchase row was bought on
PurchaseDate(row) == localDateStr(row.expires_at - HoursPerDay)

\* C30: the week bucket of purchaseSkipCard identifies the ISO week: two
\* purchases carry the same bucket if and only if they were made in the
\* same ISO week, also around a year boundary, so that no ISO week holds
\* more than 2 purchases of an item.
C30_BucketIsIsoWeek ==
    /\ \A i, j \in DOMAIN purchases :
          (purchases[i].week_of_year = purchases[j].week_of_year)
             <=> (IsoWeekStart(PurchaseDate(purchases[i]))
                    = IsoWeekStart(PurchaseDate(purchases[j])))
    /\ \A i \in DOMAIN purchases :
          Cardinality({ j \in DOMAIN purchases :
                          /\ purchases[j].item_id = purchases[i].item_id
                          /\ IsoWeekStart(PurchaseDate(purchases[j]))
                               = IsoWeekStart(PurchaseDate(purchases[i])) })
             <= WeeklyLimit

\* a third card has been bought in the ISO week that spans the new year
C30_ThreeInOneIsoWeek ==
    /\ Called("purchaseSkipCard")
    /\ last.ret = "ok"
    /\ Len(purchases) = 3
    /\ \A i \in DOMAIN purchases :
          IsoWeekStart(PurchaseDate(purchases[i])) = 2
    /\ purchases[1].week_of_year = 202401
    /\ purchases[3].week_of_year = 202501

\* call p started with no other call in progress, call q started while p
\* was in progress, and both have returned
Raced(p, q) ==
    /\ calls[p].pc = "done"
    /\ calls[q].pc = "done"
    /\ calls[p].first
    /\ calls[q].overlap

\* the streak record, the targets and the purchase rows of db are what the
\* tables now hold (purchases made since then apart)
LeftAs(db) ==
    /\ streaks = db.streaks
    /\ daily_targets = db.daily_targets
    /\ \A i \in DOMAIN db.purchases : purchases[i] = db.purchases[i]

\* C29: when two checkAndApplyPenalties calls interleave on a day that has
\* one missed day left uncovered, the penalty of that day is added to
\* penalty_km once and the tables end as a single call would leave them
\* (the streak record, and the cards a single call would consume).
C29_RaceEqualsSingleCall ==
    \A p, q \in CallIds :
        (/\ Raced(p, q)
         /\ Reconciles(calls[p].pre, now)
         /\ RemainingMissed(calls[p].pre, now) = 1) =>
            /\ Row.penalty_km = TheStreak(calls[p].pre).penalty_km
                                   + LastTargetKm(calls[p].pre, Today)
            /\ \E used \in CardChoices(calls[p].pre, now) :
                  LeftAs(checkAndApplyPenalties(calls[p].pre, now, used).db)

\* a streak has been reset by the second of two interleaved calls although
\* a card left only one missed day uncovered
C29_StreakLostInRace ==
    \E p, q \in CallIds :
        /\ Raced(p, q)
        /\ Reconciles(calls[p].pre, now)
        /\ RemainingMissed(calls[p].pre, now) = 1
        /\ TheStreak(calls[p].pre).current_streak > 0
        /\ calls[p].used # {}
        /\ calls[q].used = {}
        /\ Row.current_streak = 0

\* two interleaved calls have charged one missed day without cards and
\* left the record a single call leaves
C29_PenaltyChargedOnce ==
    \E p, q \in CallIds :
        /\ Raced(p, q)
        /\ Reconciles(calls[p].pre, now)
        /\ RemainingMissed(calls[p].pre, now) = 1
        /\ calls[p].ret > 0
        /\ calls[q].ret > 0
        /\ LeftAs(checkAndApplyPenalties(calls[p].pre, now, {}).db)

====
